---- MODULE Spec2Model ----
(***************************************************************************)
(* The validator set of consensus/hotstuff/validator/default.go: the       *)
(* sorted member list, the cached proposer, the proposer selectors and the *)
(* quorum arithmetic.                                                      *)
(*                                                                         *)
(* A validator is modelled by its address (defaultValidator has the one    *)
(* field); addresses are the naturals 0..MaxAddr in the order the sort     *)
(* uses, 0 being common.Address{}.  Go slices are 0-based: the element at   *)
(* Go index i is validators[i + 1] here.                                   *)
(***************************************************************************)
EXTENDS Integers, Sequences, FiniteSets, TLC

\* ---- bounds of the model ------------------------------------------------
MaxAddr == 2
MaxSize == 3
MaxCommit == 2
UintBits == 2
MaxBigSize == 10
MaxOverlapSize == 5
\* the largest address, the largest set and the longest committer list where
\* a set and its copy are followed
MaxCopyAddr == 1
MaxCopySize == 2
MaxCopyCommit == 1
\* the largest address and the largest constructed set where concurrent
\* calls are followed
MaxLockAddr == 1
MaxLockSize == 2

\* ---- values -------------------------------------------------------------
Addrs == 0..MaxAddr
BigAddrs == 0..MaxBigSize
\* common.Address{}, the address emptyAddress compares with
ZeroAddress == 0
\* a nil hotstuff.Validator
NilValidator == -1
\* the index GetByAddress returns on a miss
NotFound == -1
\* uint64 arithmetic wraps at 2^64; the model keeps the wrap at 2^UintBits
UintMod == 2 ^ UintBits
Rounds == 0..(UintMod - 1)
Policies == {"RoundRobin", "Sticky", "VRF"}
\* the set the operations act on, and a second, independently built set
Sets == {"valSet", "src"}

ListsOf(S, n) == UNION {[1..k -> S] : k \in 0..n}

\* ---- sort.Sort(valSet.validators) ---------------------------------------
RECURSIVE Insert(_, _)
Insert(sorted, v) ==
    IF sorted = << >> THEN << v >>
    ELSE IF v <= Head(sorted) THEN << v >> \o sorted
    ELSE << Head(sorted) >> \o Insert(Tail(sorted), v)

RECURSIVE Sort(_)
Sort(vals) ==
    IF vals = << >> THEN << >>
    ELSE Insert(Sort(Tail(vals)), Head(vals))

\* ---- queries on a member list -------------------------------------------
Size(vals) == Len(vals)

New(addr) == addr

\* GetByIndex: the member at Go index i, nil when i >= Size()
GetByIndex(vals, i) ==
    IF i < Size(vals) THEN vals[i + 1] ELSE NilValidator

\* GetByAddress: the first Go index holding addr and its validator, or (-1, nil)
GetByAddress(vals, addr) ==
    IF \E i \in 1..Len(vals) : vals[i] = addr
    THEN LET i == CHOOSE i \in 1..Len(vals) :
                    /\ vals[i] = addr
                    /\ \A j \in 1..(i - 1) : vals[j] # addr
         IN  [idx |-> i - 1, val |-> vals[i]]
    ELSE [idx |-> NotFound, val |-> NilValidator]

\* AddressList: the members' addresses in list order
AddressList(vals) == [i \in 1..Len(vals) |-> vals[i]]

\* newDefaultSet: the members sorted, the first one as proposer
newDefaultSet(addrs, pol) ==
    LET vals == Sort([i \in 1..Len(addrs) |-> New(addrs[i])])
    IN  [validators |-> vals,
         policy     |-> pol,
         proposer   |-> IF Size(vals) > 0 THEN GetByIndex(vals, 0) ELSE NilValidator]

NewSet(addrs, pol) == newDefaultSet(addrs, pol)

\* ---- quorum arithmetic --------------------------------------------------
\* math.Ceil(float64(n) / 3) for n >= 0
Ceil3(n) == (n + 2) \div 3

\* F() without the "- 1"
F_NoMinusOne(vals) == Ceil3(Size(vals))

F(vals) == Ceil3(Size(vals)) - 1

\* Q() as the textbook 2f + 1
Q_TwoFPlusOne(vals) == 2 * F(vals) + 1

Q(vals) == Size(vals) - F(vals)

\* ---- membership of a list ----------------------------------------------
HasAddress(vals, address) == \E i \in 1..Len(vals) : vals[i] = address

\* the list without its first entry for address (append(v[:i], v[i+1:]...))
RECURSIVE RemoveFirst(_, _)
RemoveFirst(vals, address) ==
    IF vals = << >> THEN << >>
    ELSE IF Head(vals) = address THEN Tail(vals)
    ELSE << Head(vals) >> \o RemoveFirst(Tail(vals), address)

\* ---- state --------------------------------------------------------------
\* validators, policy, proposer: the fields of each set; last: the latest
\* call; mem: the backing arrays of the member slices; scan: a GetByAddress
\* call in flight; rw, pc: validatorMu and the calls of the goroutines
VARIABLES validators, policy, proposer, last, mem, scan, rw, pc

vars == << validators, policy, proposer, last, mem, scan, rw, pc >>

\* ---- the backing arrays of the member slices ----------------------------
\* A Go slice is a length and a reference into a backing array.  mem.ref
\* holds the slices: valSet.validators of each set, the slice List() handed
\* out ("list"), the slice a GetByAddress loop ranges over ("range") and the
\* working copy of CheckQuorum ("copy"); mem.heap holds the arrays.  The
\* arrays are followed when mem.on is set; otherwise a set's list is kept
\* in validators alone.
Arrays == << "a1", "a2", "a3", "a4", "a5" >>
ArrIds == {Arrays[i] : i \in 1..Len(Arrays)}
Refs == Sets \cup {"list", "range", "copy"}
\* a slice without a backing array (length and capacity 0)
NoSlice == [arr |-> "nil", len |-> 0]

NoMem ==
    [on |-> FALSE, heap |-> [id \in ArrIds |-> << >>], ref |-> [r \in Refs |-> NoSlice],
     listed |-> << >>]

CapOf(m, r) == IF m.ref[r].arr = "nil" THEN 0 ELSE Len(m.heap[m.ref[r].arr])

\* the elements a slice shows
View(m, r) ==
    IF m.ref[r].len = 0 THEN << >> ELSE SubSeq(m.heap[m.ref[r].arr], 1, m.ref[r].len)

Used(m) == {m.ref[r].arr : r \in Refs} \ {"nil"}

\* a fresh array: the first one no slice refers to
FreeArr(m) ==
    Arrays[CHOOSE i \in 1..Len(Arrays) :
               /\ Arrays[i] \notin Used(m)
               /\ \A j \in 1..(i - 1) : Arrays[j] \in Used(m)]

\* arrays no slice refers to are reclaimed
Collect(m) ==
    [m EXCEPT !.heap = [id \in ArrIds |-> IF id \in Used(m) THEN m.heap[id] ELSE << >>]]

Drop(m, r) == Collect([m EXCEPT !.ref[r] = NoSlice])

\* make([]hotstuff.Validator, len(vals)) filled with vals, held by slice r
makeSlice(m, r, vals) ==
    LET d == Drop(m, r)
    IN  IF vals = << >> THEN d
        ELSE LET id == FreeArr(d)
             IN  [d EXCEPT !.heap[id] = vals, !.ref[r] = [arr |-> id, len |-> Len(vals)]]

\* the capacity append gives the new array of a full slice of capacity c
\* (small slices double)
GrownCap(c) == IF c = 0 THEN 1 ELSE c + c

\* r = append(r, v); sort.Sort(r): in place while the capacity lasts, in a
\* new array otherwise
appendSorted(m, r, v) ==
    LET n     == m.ref[r].len
        c     == CapOf(m, r)
        cells == IF c = 0 THEN << >> ELSE m.heap[m.ref[r].arr]
        vals  == Sort(Append(View(m, r), v))
    IN  IF n < c
        THEN [m EXCEPT !.heap[m.ref[r].arr] = vals \o SubSeq(cells, n + 2, c),
                       !.ref[r].len = n + 1]
        ELSE LET free == [m EXCEPT !.ref[r] = NoSlice]
                 id   == FreeArr(free)
             IN  Collect([free EXCEPT
                            !.heap[id] =
                                vals \o [i \in 1..(GrownCap(c) - n - 1) |-> NilValidator],
                            !.ref[r] = [arr |-> id, len |-> n + 1]])

\* r = append(r[:i], r[i+1:]...) for the first i with r[i] = address: the
\* entries behind i move down one cell in place, the last cell keeps its value
removeShift(m, r, address) ==
    LET n     == m.ref[r].len
        cells == m.heap[m.ref[r].arr]
    IN  [m EXCEPT !.heap[m.ref[r].arr] =
                      RemoveFirst(View(m, r), address) \o SubSeq(cells, n, Len(cells)),
                  !.ref[r].len = n - 1]

\* the lists of the sets as their slices show them
Views(m) == [s \in Sets |-> View(m, s)]

\* the lists after a call: read through the slices when the arrays are
\* followed, the given lists otherwise
Stored(m, lists) == IF m.on THEN Views(m) ELSE lists

\* ---- calls in flight ------------------------------------------------------
Goroutines == {"g1", "g2"}

\* no GetByAddress call in flight
NoScan ==
    [on |-> FALSE, addr |-> NilValidator, i |-> 0, seen |-> {},
     ret |-> [idx |-> NotFound, val |-> NilValidator]]

\* validatorMu unlocked, no writer waiting: readers counts the read locks
\* held, writer is set while the write lock is held, waiting holds the
\* goroutines inside Lock() that wait for the readers to leave
NoLock == [readers |-> 0, writer |-> FALSE, waiting |-> {}]

\* a goroutine outside any call; inside one, todo is what the call still
\* does with validatorMu and the fields, held the locks it holds
Idle == [op |-> "idle", addr |-> NilValidator, todo |-> << >>, held |-> 0]

\* the calls run one after the other, each to its end
Sequential == UNCHANGED << scan, rw, pc >>

\* the record of the latest call: its name, receiver, arguments and result
Call(op, s, addr, round, list, ret) ==
    [op |-> op, set |-> s, addr |-> addr, round |-> round, list |-> list, ret |-> ret,
     fault |-> FALSE]

\* the record of a call that ended in a run-time panic
Panic(op, s, addr, round, list) ==
    [Call(op, s, addr, round, list, FALSE) EXCEPT !.fault = TRUE]

\* the fields of the two sets once built, no call under way
Fields(set, other) ==
    /\ validators = [s \in Sets |-> IF s = "valSet" THEN set.validators ELSE other.validators]
    /\ policy = [s \in Sets |-> IF s = "valSet" THEN set.policy ELSE other.policy]
    /\ proposer = [s \in Sets |-> IF s = "valSet" THEN set.proposer ELSE other.proposer]
    /\ last = Call("newDefaultSet", "valSet", NilValidator, 0, << >>, TRUE)
    /\ scan = NoScan
    /\ rw = NoLock
    /\ pc = [g \in Goroutines |-> Idle]

Built(set, other) == Fields(set, other) /\ mem = NoMem

\* the arrays newDefaultSet makes for the two sets
Allocated(set, other) ==
    makeSlice(makeSlice([NoMem EXCEPT !.on = TRUE], "valSet", set.validators),
              "src", other.validators)

\* the two sets built, their backing arrays followed
BuiltOnArrays(set, other) == Fields(set, other) /\ mem = Allocated(set, other)

\* one set built from any address list; the second set is not in use
Init ==
    \E addrs \in ListsOf(Addrs, MaxSize), pol \in Policies :
        Built(newDefaultSet(addrs, pol), newDefaultSet(<< >>, "RoundRobin"))

\* ---- AddValidator / RemoveValidator -------------------------------------

\* AddValidator without the membership test
AddValidator_NoCheck(s, address) ==
    /\ validators' = [validators EXCEPT ![s] = Sort(Append(@, New(address)))]
    /\ last' = Call("AddValidator", s, address, 0, << >>, TRUE)
    /\ UNCHANGED << policy, proposer, mem >>

AddValidator(s, address) ==
    /\ IF HasAddress(validators[s], address)
       THEN /\ UNCHANGED << validators, mem >>
            /\ last' = Call("AddValidator", s, address, 0, << >>, FALSE)
       ELSE /\ mem' = IF mem.on THEN appendSorted(mem, s, New(address)) ELSE mem
            /\ validators' =
                   Stored(mem', [validators EXCEPT ![s] = Sort(Append(@, New(address)))])
            /\ last' = Call("AddValidator", s, address, 0, << >>, TRUE)
    /\ UNCHANGED << policy, proposer >>

RemoveValidator(s, address) ==
    /\ IF HasAddress(validators[s], address)
       THEN /\ mem' = IF mem.on THEN removeShift(mem, s, address) ELSE mem
            /\ validators' =
                   Stored(mem', [validators EXCEPT ![s] = RemoveFirst(@, address)])
            /\ last' = Call("RemoveValidator", s, address, 0, << >>, TRUE)
       ELSE /\ UNCHANGED << validators, mem >>
            /\ last' = Call("RemoveValidator", s, address, 0, << >>, FALSE)
    /\ UNCHANGED << policy, proposer >>

\* ---- proposer selection ------------------------------------------------
emptyAddress(addr) == addr = ZeroAddress

\* calcSeed without the last proposer's index
calcSeed_NoOffset(vals, lastProposer, round) == round % UintMod

\* calcSeed: the last proposer's index (0 when it is no member) plus round, in uint64
calcSeed(vals, lastProposer, round) ==
    LET found  == GetByAddress(vals, lastProposer)
        offset == IF found.val # NilValidator THEN found.idx ELSE 0
    IN  (offset + round) % UintMod

\* roundRobinSelector without the step to the next member
roundRobinSelector_NoStep(vals, lastProposer, round) ==
    IF Size(vals) = 0 THEN NilValidator
    ELSE LET seed == IF emptyAddress(lastProposer)
                     THEN round
                     ELSE calcSeed(vals, lastProposer, round)
             pick == seed % Size(vals)
         IN  GetByIndex(vals, pick)

roundRobinSelector(vals, lastProposer, round) ==
    IF Size(vals) = 0 THEN NilValidator
    ELSE LET seed == IF emptyAddress(lastProposer)
                     THEN round
                     ELSE (calcSeed(vals, lastProposer, round) + 1) % UintMod
             pick == seed % Size(vals)
         IN  GetByIndex(vals, pick)

stickySelector(vals, lastProposer, round) ==
    IF Size(vals) = 0 THEN NilValidator
    ELSE LET seed == IF emptyAddress(lastProposer)
                     THEN round
                     ELSE calcSeed(vals, lastProposer, round)
             pick == seed % Size(vals)
         IN  GetByIndex(vals, pick)

vrfSelector(vals, lastProposer, round) == NilValidator

\* valSet.selector, as newDefaultSet sets it from the policy
selector(pol, vals, lastProposer, round) ==
    IF pol = "VRF" THEN vrfSelector(vals, lastProposer, round)
    ELSE IF pol = "Sticky" THEN stickySelector(vals, lastProposer, round)
    ELSE roundRobinSelector(vals, lastProposer, round)

CalcProposer(s, lastProposer, round) ==
    /\ proposer' = [proposer EXCEPT
                      ![s] = selector(policy[s], validators[s], lastProposer, round)]
    /\ last' = Call("CalcProposer", s, lastProposer, round, << >>, TRUE)
    /\ UNCHANGED << validators, policy, mem >>

\* CalcProposerByIndex: no lock, no test of the size; on an empty set the
\* modulo (index > 1) or the indexing (index <= 1) panics; the index is kept
\* in the record's round field
CalcProposerByIndex(s, index) ==
    IF Len(validators[s]) = 0
    THEN /\ last' = Panic("CalcProposerByIndex", s, NilValidator, index, << >>)
         /\ UNCHANGED << validators, policy, proposer, mem >>
    ELSE LET i == IF index > 1 THEN (index - 1) % Len(validators[s]) ELSE 0
         IN  /\ proposer' = [proposer EXCEPT ![s] = validators[s][i + 1]]
             /\ last' = Call("CalcProposerByIndex", s, NilValidator, index, << >>, TRUE)
             /\ UNCHANGED << validators, policy, mem >>

GetProposer(s) == proposer[s]

\* reflect.DeepEqual of two hotstuff.Validator values: both nil, or both
\* non-nil with equal address fields
DeepEqual(x, y) == x = y

IsProposer(s, address) ==
    /\ last' = Call("IsProposer", s, address, 0, << >>,
                    DeepEqual(GetProposer(s), GetByAddress(validators[s], address).val))
    /\ UNCHANGED << validators, policy, proposer, mem >>

\* ---- quorum check -------------------------------------------------------
\* Copy: a new set built from the members' addresses and the policy
Copy(s) == NewSet(AddressList(validators[s]), policy[s])

\* the loop of CheckQuorum over committers[i..]: the working copy's members
\* and validSeal once the loop is done
RECURSIVE RemoveCommitters(_, _, _)
RemoveCommitters(vals, committers, validSeal) ==
    IF committers = << >> THEN [validators |-> vals, validSeal |-> validSeal]
    ELSE IF HasAddress(vals, Head(committers))
         THEN RemoveCommitters(RemoveFirst(vals, Head(committers)),
                               Tail(committers), validSeal + 1)
         ELSE RemoveCommitters(vals, Tail(committers), validSeal)

checkQuorum(s, committers) ==
    LET done == RemoveCommitters(Copy(s).validators, committers, 0)
    IN  IF done.validSeal <= Q(done.validators)
        THEN "ErrInvalidParticipant"
        ELSE "nil"

\* a copy that keeps the members' slice of the set it is taken from
copyStorage_Shared(m, s, t) == Collect([m EXCEPT !.ref[t] = m.ref[s]])

\* Copy on the arrays: the addresses are read out of s one by one and the
\* set built from them gets an array of its own, held by slice t
copyStorage(m, s, t) == makeSlice(m, t, NewSet(AddressList(View(m, s)), "RoundRobin").validators)

\* the loop of CheckQuorum on the arrays, the working copy being slice "copy"
RECURSIVE removeCommittersOn(_, _, _)
removeCommittersOn(m, committers, validSeal) ==
    IF committers = << >> THEN [mem |-> m, validSeal |-> validSeal]
    ELSE IF HasAddress(View(m, "copy"), Head(committers))
         THEN removeCommittersOn(removeShift(m, "copy", Head(committers)),
                                 Tail(committers), validSeal + 1)
         ELSE removeCommittersOn(m, Tail(committers), validSeal)

\* CheckQuorum on the arrays: its result, and the arrays once the working
\* copy is out of use
checkQuorumOn(m, s, committers) ==
    LET done == removeCommittersOn(copyStorage(m, s, "copy"), committers, 0)
    IN  [ret |-> IF done.validSeal <= Q(View(done.mem, "copy"))
                 THEN "ErrInvalidParticipant"
                 ELSE "nil",
         mem |-> Drop(done.mem, "copy")]

CheckQuorum(s, committers) ==
    /\ mem' = IF mem.on THEN checkQuorumOn(mem, s, committers).mem ELSE mem
    /\ validators' = Stored(mem', validators)
    /\ last' = Call("CheckQuorum", s, NilValidator, 0, committers,
                    IF mem.on THEN checkQuorumOn(mem, s, committers).ret
                    ELSE checkQuorum(s, committers))
    /\ UNCHANGED << policy, proposer >>

\* t = s.Copy()
CopySet(s, t) ==
    /\ mem' = copyStorage(mem, s, t)
    /\ validators' = Views(mem')
    /\ policy' = [policy EXCEPT ![t] = Copy(s).policy]
    /\ proposer' = [proposer EXCEPT ![t] = Copy(s).proposer]
    /\ last' = Call("Copy", s, NilValidator, 0, << >>, TRUE)

\* ---- ParticipantsNumber / Cmp --------------------------------------------
\* ParticipantsNumber: the entries of list that GetByAddress finds in vals
RECURSIVE ParticipantsNumber(_, _)
ParticipantsNumber(vals, list) ==
    IF list = << >> THEN 0
    ELSE (IF GetByAddress(vals, Head(list)).idx < 0 THEN 0 ELSE 1)
         + ParticipantsNumber(vals, Tail(list))

cmp(vals, srcVals) ==
    LET n == ParticipantsNumber(vals, AddressList(srcVals))
    IN  ~ (n # Size(vals) \/ n # Size(srcVals))

\* s.Cmp(src); the record's list field holds src's address list
Cmp(s, src) ==
    /\ last' = Call("Cmp", s, NilValidator, 0, AddressList(validators[src]),
                    cmp(validators[s], validators[src]))
    /\ UNCHANGED << validators, policy, proposer, mem >>

\* a call of F() and of Q()
QuorumSize(s) ==
    /\ last' = Call("Q", s, NilValidator, 0, << >>,
                    [f |-> F(validators[s]), q |-> Q(validators[s])])
    /\ UNCHANGED << validators, policy, proposer, mem >>

\* the model lets a set grow to n members: an add is taken when it is
\* rejected or leaves the set within n
Room(s, address, n) ==
    Len(validators[s]) < n \/ HasAddress(validators[s], address)

\* ---- one set: membership changes, proposer selection and its queries ----
Next ==
    \/ \E a \in Addrs : Room("valSet", a, MaxSize) /\ AddValidator("valSet", a) /\ Sequential
    \/ \E a \in Addrs : RemoveValidator("valSet", a) /\ Sequential
    \/ \E a \in Addrs, r \in Rounds : CalcProposer("valSet", a, r) /\ Sequential
    \/ \E a \in Addrs : IsProposer("valSet", a) /\ Sequential
    \/ \E i \in Rounds : CalcProposerByIndex("valSet", i) /\ Sequential
    \/ QuorumSize("valSet") /\ Sequential

Spec == Init /\ [][Next]_vars

\* ---- one set: membership changes and quorum checks ----------------------
NextQuorum ==
    \/ \E a \in Addrs : Room("valSet", a, MaxSize) /\ AddValidator("valSet", a) /\ Sequential
    \/ \E a \in Addrs : RemoveValidator("valSet", a) /\ Sequential
    \/ \E c \in ListsOf(Addrs, MaxCommit) : CheckQuorum("valSet", c) /\ Sequential

SpecQuorum == Init /\ [][NextQuorum]_vars

\* ---- two sets: valSet operated on, src built independently --------------
InitTwo ==
    \E addrs \in ListsOf(Addrs, MaxSize), other \in ListsOf(Addrs, MaxSize),
       pol \in Policies :
        Built(newDefaultSet(addrs, pol), newDefaultSet(other, pol))

NextTwo ==
    \/ \E a \in Addrs : Room("valSet", a, MaxSize) /\ AddValidator("valSet", a) /\ Sequential
    \/ \E a \in Addrs : RemoveValidator("valSet", a) /\ Sequential
    \/ \E a \in Addrs, r \in Rounds : CalcProposer("valSet", a, r) /\ Sequential
    \/ Cmp("valSet", "src") /\ Sequential
    \/ Cmp("src", "valSet") /\ Sequential

SpecTwo == InitTwo /\ [][NextTwo]_vars

\* ---- sets of up to MaxBigSize members -----------------------------------
Prefix(n) == [i \in 1..n |-> i - 1]

InitSize ==
    \E n \in 0..MaxBigSize :
        Built(newDefaultSet(Prefix(n), "RoundRobin"), newDefaultSet(<< >>, "RoundRobin"))

NextSize ==
    \/ \E a \in BigAddrs : Room("valSet", a, MaxBigSize) /\ AddValidator("valSet", a) /\ Sequential
    \/ \E a \in BigAddrs : RemoveValidator("valSet", a) /\ Sequential
    \/ QuorumSize("valSet") /\ Sequential

SpecSize == InitSize /\ [][NextSize]_vars

\* ---- List() and later membership changes --------------------------------
\* List(): the slice handed to the caller is valSet.validators itself; the
\* caller keeps it (mem.ref["list"]), mem.listed is what it showed then
List(s) ==
    /\ mem' = Collect([mem EXCEPT !.ref["list"] = mem.ref[s], !.listed = validators[s]])
    /\ last' = Call("List", s, NilValidator, 0, validators[s], TRUE)
    /\ UNCHANGED << validators, policy, proposer >>

InitList ==
    \E addrs \in ListsOf(Addrs, MaxSize) :
        BuiltOnArrays(newDefaultSet(addrs, "RoundRobin"), newDefaultSet(<< >>, "RoundRobin"))

NextList ==
    \/ \E a \in Addrs : Room("valSet", a, MaxSize) /\ AddValidator("valSet", a) /\ Sequential
    \/ \E a \in Addrs : RemoveValidator("valSet", a) /\ Sequential
    \/ List("valSet") /\ Sequential

SpecList == InitList /\ [][NextList]_vars

\* ---- GetByAddress beside membership changes ------------------------------
\* GetByAddress takes the members' slice from List() and walks it with no
\* lock held: a step per loop iteration, AddValidator/RemoveValidator calls
\* in between.  (The writers' calls are taken whole here; a reader may also
\* see an array half way through a shift or a sort.)  scan.seen collects
\* what GetByAddress returns on the membership of each instant of the call.
StartGetByAddress(s, addr) ==
    /\ ~ scan.on
    /\ mem' = Collect([mem EXCEPT !.ref["range"] = mem.ref[s]])
    /\ scan' = [on |-> TRUE, addr |-> addr, i |-> 0,
                seen |-> {GetByAddress(validators[s], addr)},
                ret |-> [idx |-> NotFound, val |-> NilValidator]]
    /\ UNCHANGED << validators, policy, proposer, last >>

\* the return of the GetByAddress call under way
ReturnGetByAddress(s, found) ==
    /\ scan' = [scan EXCEPT !.on = FALSE, !.ret = found]
    /\ mem' = Drop(mem, "range")
    /\ last' = Call("GetByAddress", s, scan.addr, 0, << >>, found)

StepGetByAddress(s) ==
    /\ scan.on
    /\ IF scan.i < mem.ref["range"].len
       THEN LET val == mem.heap[mem.ref["range"].arr][scan.i + 1]
            IN  IF val = scan.addr
                THEN ReturnGetByAddress(s, [idx |-> scan.i, val |-> val])
                ELSE /\ scan' = [scan EXCEPT !.i = scan.i + 1]
                     /\ UNCHANGED << mem, last >>
       ELSE ReturnGetByAddress(s, [idx |-> NotFound, val |-> NilValidator])
    /\ UNCHANGED << validators, policy, proposer >>

\* a membership change of s while a GetByAddress call is under way: one more
\* instant of that call
Observed(s) ==
    /\ scan' = IF scan.on
               THEN [scan EXCEPT !.seen = @ \cup {GetByAddress(validators'[s], scan.addr)}]
               ELSE scan
    /\ UNCHANGED << rw, pc >>

NextScan ==
    \/ \E a \in Addrs :
           Room("valSet", a, MaxSize) /\ AddValidator("valSet", a) /\ Observed("valSet")
    \/ \E a \in Addrs : RemoveValidator("valSet", a) /\ Observed("valSet")
    \/ \E a \in Addrs : StartGetByAddress("valSet", a) /\ UNCHANGED << rw, pc >>
    \/ StepGetByAddress("valSet") /\ UNCHANGED << rw, pc >>

SpecScan == InitList /\ [][NextScan]_vars

\* ---- concurrent calls on one set and validatorMu ---------------------------
\* What a call does, in the order of its code: "RLock"/"RUnlock" and
\* "Lock"/"Unlock" on validatorMu ("acquire" is the end of the wait inside
\* Lock()), "selector" the call of valSet.selector, "store" the assignment
\* of valSet.proposer, "write" the body of AddValidator/RemoveValidator.
SizeScript == << "RLock", "RUnlock" >>

ListScript == << "RLock", "RUnlock" >>

\* the outer RLock, then Size() and List() inside it
AddressListScript == << "RLock" >> \o SizeScript \o ListScript \o << "RUnlock" >>

\* the outer RLock, then Size() inside it
GetByIndexScript == << "RLock" >> \o SizeScript \o << "RUnlock" >>

\* List(), then the loop with no lock held
GetByAddressScript == ListScript

CopyScript == << "RLock", "RUnlock" >>

\* Copy(); the rest works on the copy and its own lock
CheckQuorumScript == CopyScript

calcSeedScript == GetByAddressScript

\* roundRobinSelector and stickySelector make the same calls on the set;
\* vrfSelector makes none
selectorScript(pol, vals, lastProposer) ==
    IF pol = "VRF" THEN << >>
    ELSE SizeScript
         \o (IF Size(vals) = 0 THEN << >>
             ELSE (IF emptyAddress(lastProposer) THEN << >> ELSE calcSeedScript)
                  \o SizeScript \o GetByIndexScript)

CalcProposerScript == << "RLock", "selector", "store", "RUnlock" >>

\* AddValidator and RemoveValidator
WriterScript == << "Lock", "acquire", "write", "Unlock" >>

Readers == {"Size", "List", "AddressList", "GetByIndex", "GetByAddress", "Copy",
            "CalcProposer", "CheckQuorum"}

Writers == {"AddValidator", "RemoveValidator"}

Script(op) ==
    CASE op = "Size" -> SizeScript
      [] op = "List" -> ListScript
      [] op = "AddressList" -> AddressListScript
      [] op = "GetByIndex" -> GetByIndexScript
      [] op = "GetByAddress" -> GetByAddressScript
      [] op = "Copy" -> CopyScript
      [] op = "CheckQuorum" -> CheckQuorumScript
      [] op = "CalcProposer" -> CalcProposerScript
      [] OTHER -> WriterScript

LockAddrs == 0..MaxLockAddr

\* the address argument of a call, where the call's course depends on one
ArgsOf(op) ==
    IF op \in Writers \cup {"CalcProposer"} THEN LockAddrs ELSE {NilValidator}

Quiet == UNCHANGED << validators, policy, proposer, last, mem, scan >>

\* goroutine g is at step e of a call
AtStep(g, e) == pc[g].todo # << >> /\ Head(pc[g].todo) = e

\* g has done its step, holding d more locks than before; after the last
\* step the call returns
Advance(g, d) ==
    pc' = [pc EXCEPT ![g] = IF Len(pc[g].todo) = 1 THEN Idle
                            ELSE [pc[g] EXCEPT !.todo = Tail(pc[g].todo),
                                               !.held = pc[g].held + d]]

Begin(g, op, addr) ==
    /\ pc[g] = Idle
    /\ pc' = [pc EXCEPT ![g] = [op |-> op, addr |-> addr, todo |-> Script(op), held |-> 0]]
    /\ UNCHANGED rw
    /\ Quiet

\* sync.RWMutex.RLock: granted unless a writer holds the lock or waits for it
RLock(g) ==
    /\ AtStep(g, "RLock")
    /\ ~ rw.writer
    /\ rw.waiting = {}
    /\ rw' = [rw EXCEPT !.readers = rw.readers + 1]
    /\ Advance(g, 1)
    /\ Quiet

RUnlock(g) ==
    /\ AtStep(g, "RUnlock")
    /\ rw' = [rw EXCEPT !.readers = rw.readers - 1]
    /\ Advance(g, -1)
    /\ Quiet

\* sync.RWMutex.Lock: from here on no new read lock is granted
Lock(g) ==
    /\ AtStep(g, "Lock")
    /\ rw' = [rw EXCEPT !.waiting = rw.waiting \cup {g}]
    /\ Advance(g, 0)
    /\ Quiet

\* the wait inside Lock() ends once the readers have left
Acquire(g) ==
    /\ AtStep(g, "acquire")
    /\ rw.readers = 0
    /\ ~ rw.writer
    /\ rw' = [rw EXCEPT !.writer = TRUE, !.waiting = rw.waiting \ {g}]
    /\ Advance(g, 1)
    /\ Quiet

Write(g) ==
    /\ AtStep(g, "write")
    /\ IF pc[g].op = "AddValidator"
       THEN AddValidator("valSet", pc[g].addr)
       ELSE RemoveValidator("valSet", pc[g].addr)
    /\ Advance(g, 0)
    /\ UNCHANGED << rw, scan >>

Unlock(g) ==
    /\ AtStep(g, "Unlock")
    /\ rw' = [rw EXCEPT !.writer = FALSE]
    /\ Advance(g, -1)
    /\ Quiet

\* CalcProposer calls valSet.selector: the calls the selector makes on the
\* set come first in what is left to do
Select(g) ==
    /\ AtStep(g, "selector")
    /\ pc' = [pc EXCEPT ![g].todo =
                  selectorScript(policy["valSet"], validators["valSet"], pc[g].addr)
                  \o Tail(pc[g].todo)]
    /\ UNCHANGED rw
    /\ Quiet

\* CalcProposer assigns valSet.proposer (round 0)
Store(g) ==
    /\ AtStep(g, "store")
    /\ CalcProposer("valSet", pc[g].addr, 0)
    /\ Advance(g, 0)
    /\ UNCHANGED << rw, scan >>

InitLock ==
    \E addrs \in ListsOf(LockAddrs, MaxLockSize), pol \in Policies :
        Built(newDefaultSet(addrs, pol), newDefaultSet(<< >>, "RoundRobin"))

NextLock ==
    \/ \E g \in Goroutines, op \in Readers \cup Writers :
           \E a \in ArgsOf(op) : Begin(g, op, a)
    \/ \E g \in Goroutines : RLock(g)
    \/ \E g \in Goroutines : RUnlock(g)
    \/ \E g \in Goroutines : Lock(g)
    \/ \E g \in Goroutines : Acquire(g)
    \/ \E g \in Goroutines : Write(g)
    \/ \E g \in Goroutines : Unlock(g)
    \/ \E g \in Goroutines : Select(g)
    \/ \E g \in Goroutines : Store(g)

SpecLock == InitLock /\ [][NextLock]_vars

\* ---- a set and its copy ---------------------------------------------------
CopyAddrs == 0..MaxCopyAddr

\* valSet built from any address list, src = valSet.Copy(); the calls that
\* follow are made on the copy, and CheckQuorum on the original
InitCopy ==
    \E addrs \in ListsOf(CopyAddrs, MaxCopySize) :
        LET set == newDefaultSet(addrs, "RoundRobin")
            m   == copyStorage(Allocated(set, newDefaultSet(<< >>, "RoundRobin")),
                               "valSet", "src")
        IN  /\ Fields(set, NewSet(AddressList(set.validators), set.policy))
            /\ mem = m
            /\ validators = Views(m)

NextCopy ==
    \/ CopySet("valSet", "src") /\ Sequential
    \/ \E a \in CopyAddrs :
           Room("src", a, MaxCopySize) /\ AddValidator("src", a) /\ Sequential
    \/ \E a \in CopyAddrs : RemoveValidator("src", a) /\ Sequential
    \/ \E c \in ListsOf(CopyAddrs, MaxCopyCommit) : CheckQuorum("valSet", c) /\ Sequential

SpecCopy == InitCopy /\ [][NextCopy]_vars

\* ---- vocabulary of the properties ---------------------------------------
Members(vals) == {vals[i] : i \in 1..Len(vals)}

\* the number of entries before the first entry for a (Len(vals) if none)
PositionOf(vals, a) ==
    Cardinality({j \in 1..Len(vals) : \A k \in 1..j : vals[k] # a})

\* the member at Go index i
At(vals, i) == vals[i + 1]

\* no address occurs twice in the list
Distinct(vals) == Cardinality(Members(vals)) = Len(vals)

this == validators["valSet"]

thisProposer == proposer["valSet"]

\* ---- C1 -----------------------------------------------------------------
\* C1: after construction from any address list and after any sequence of
\* AddValidator/RemoveValidator calls, AddressList() is strictly ascending:
\* sorted, and no address twice.
C1_StrictlyAscending ==
    \A i \in 1..(Len(AddressList(this)) - 1) :
        AddressList(this)[i] < AddressList(this)[i + 1]

\* ---- C2 -----------------------------------------------------------------
\* two sets with the same member addresses and the same size
SameMembers(a, b) == Members(a) = Members(b) /\ Len(a) = Len(b)

\* C2: for fixed (membership, lastProposer, round), the proposer CalcProposer
\* stores under RoundRobin or Sticky is the one an independently built set
\* with the same members and policy yields for the same arguments.
C2_SameProposerOnEqualSets ==
    ( /\ last.op = "CalcProposer"
      /\ policy["valSet"] \in {"RoundRobin", "Sticky"}
      /\ policy["src"] = policy["valSet"]
      /\ SameMembers(this, validators["src"]) )
    => thisProposer = selector(policy["src"], validators["src"], last.addr, last.round)

\* on sets without a repeated member the statement of C2 holds: its failure
\* is that of C1
C2_OnDistinctSets ==
    (Distinct(this) /\ Distinct(validators["src"])) => C2_SameProposerOnEqualSets

\* ---- C3 -----------------------------------------------------------------
\* the distinct committer addresses that are members of the set
ValidSigners(vals, committers) == Members(committers) \cap Members(vals)

\* C3: CheckQuorum(committers) succeeds only if at least Q() distinct
\* committers are members of the set, Q() being that of the set called on.
\* Stated on sets without a repeated member, where no other defect interferes.
C3_SuccessNeedsQuorum ==
    (Distinct(this) /\ last.op = "CheckQuorum" /\ last.ret = "nil")
    => Cardinality(ValidSigners(this, last.list)) >= Q(this)

\* ---- C4 -----------------------------------------------------------------
\* Q() of a set of n members
QuorumOf(n) == n - (((n + 2) \div 3) - 1)

\* C4: CheckQuorum(committers) returns ErrInvalidParticipant exactly when
\* validSeal <= Q() of the working copy after the removals, validSeal being
\* the number of distinct committer addresses that are members.
C4_ErrorIffNotAboveRemainingQuorum ==
    last.op = "CheckQuorum"
    => LET validSeal == Cardinality(ValidSigners(this, last.list))
       IN  (last.ret = "ErrInvalidParticipant")
           <=> (validSeal <= QuorumOf(Len(this) - validSeal))

\* on sets without a repeated member the statement of C4 holds: its failure
\* is that of C1
C4_OnDistinctSets == Distinct(this) => C4_ErrorIffNotAboveRemainingQuorum

\* ---- C5 -----------------------------------------------------------------
\* C5 as stated: a set of size 1, 4, 7 and 10 has (F(), Q()) = (0,1), (1,3),
\* (2,5) and (2,8), whatever calls produced that size.
C5_TableAsStated ==
    last.op = "Q"
    => /\ Len(this) = 1 => last.ret = [f |-> 0, q |-> 1]
       /\ Len(this) = 4 => last.ret = [f |-> 1, q |-> 3]
       /\ Len(this) = 7 => last.ret = [f |-> 2, q |-> 5]
       /\ Len(this) = 10 => last.ret = [f |-> 2, q |-> 8]

\* C5 (amended): a set of size 1, 4, 7 and 10 has (F(), Q()) = (0,1), (1,3),
\* (2,5) and (3,7), whatever calls produced that size.
C5_Table ==
    last.op = "Q"
    => /\ Len(this) = 1 => last.ret = [f |-> 0, q |-> 1]
       /\ Len(this) = 4 => last.ret = [f |-> 1, q |-> 3]
       /\ Len(this) = 7 => last.ret = [f |-> 2, q |-> 5]
       /\ Len(this) = 10 => last.ret = [f |-> 3, q |-> 7]

\* F() and Q() were called on a set of 10 members that an AddValidator call
\* completed (MaxBigSize is in no constructed list)
C5_Witness ==
    /\ last.op = "Q"
    /\ Len(this) = 10
    /\ MaxBigSize \in Members(this)
    /\ last.ret = [f |-> 3, q |-> 7]

\* ---- C6 -----------------------------------------------------------------
\* the subsets of S with k elements
SubsetsOfSize(S, k) == {A \in SUBSET S : Cardinality(A) = k}

\* C6: on a set of n >= 1 members F() is the largest f with 3f + 1 <= n, and
\* with Q() = n - F() any two subsets of Q() members share at least F() + 1
\* members (the subsets are enumerated up to MaxOverlapSize members; beyond
\* that the least overlap of two such subsets, 2 Q() - n, is compared).
C6_FaultBound ==
    (last.op = "Q" /\ Len(this) >= 1)
    => LET n == Len(this)
           f == last.ret.f
           q == last.ret.q
       IN  /\ f >= 0
           /\ 3 * f + 1 <= n
           /\ 3 * (f + 1) + 1 > n
           /\ q = n - f
           /\ 2 * q - n >= f + 1
           /\ n <= MaxOverlapSize
              => \A A \in SubsetsOfSize(1..n, q), B \in SubsetsOfSize(1..n, q) :
                    Cardinality(A \cap B) >= f + 1

\* F() and Q() were called on a set whose size is a multiple of 3, small
\* enough for its subsets to be enumerated
C6_Witness ==
    /\ last.op = "Q"
    /\ Len(this) = 3
    /\ last.ret = [f |-> 0, q |-> 3]

\* ---- C7 -----------------------------------------------------------------
\* C7 as stated: under RoundRobin on a set of n >= 1 members CalcProposer
\* stores the member at index round mod n when lastProposer is the zero
\* address, and otherwise the member at index (i + round + 1) mod n, i being
\* lastProposer's position in AddressList(); on an empty set it stores no
\* validator.  The position is that of a member: the statement is taken for
\* a lastProposer that is the zero address or a member, on sets without a
\* repeated member.
C7_RoundRobinAsStated ==
    (Distinct(this) /\ last.op = "CalcProposer" /\ policy["valSet"] = "RoundRobin")
    => LET n == Len(this)
           i == PositionOf(this, last.addr)
       IN  IF n = 0 THEN thisProposer = NilValidator
           ELSE IF last.addr = ZeroAddress
                THEN thisProposer = At(this, last.round % n)
                ELSE last.addr \in Members(this)
                     => thisProposer = At(this, (i + last.round + 1) % n)

\* C7 (amended): ... and otherwise the member at index
\* ((i + round + 1) mod 2^64) mod n, the sum wrapping as uint64 does, i being
\* the first position of lastProposer in AddressList(), or 0 when
\* lastProposer is no member; on an empty set it stores no validator.
C7_RoundRobin ==
    (last.op = "CalcProposer" /\ policy["valSet"] = "RoundRobin")
    => LET n == Len(this)
           i == IF last.addr \in Members(this) THEN PositionOf(this, last.addr) ELSE 0
       IN  IF n = 0 THEN thisProposer = NilValidator
           ELSE IF last.addr = ZeroAddress
                THEN thisProposer = At(this, last.round % n)
                ELSE thisProposer = At(this, ((i + last.round + 1) % UintMod) % n)

\* RoundRobin has picked from a member lastProposer and a round whose sum
\* i + round + 1 wraps, on a set whose size does not divide 2^UintBits
C7_Witness ==
    /\ last.op = "CalcProposer"
    /\ policy["valSet"] = "RoundRobin"
    /\ last.addr # ZeroAddress
    /\ last.addr \in Members(this)
    /\ PositionOf(this, last.addr) + last.round + 1 >= UintMod
    /\ UintMod % Len(this) # 0
    /\ thisProposer \in Members(this)

\* ---- C8 -----------------------------------------------------------------
\* C8 as stated: under Sticky with lastProposer a member at index i of a set
\* of n members CalcProposer stores the member at index (i + round) mod n, so
\* with round = 0 the same proposer is retained, whereas RoundRobin with
\* round = 0 stores the member at index (i + 1) mod n.  Stated on sets
\* without a repeated member, where lastProposer has one index.
C8_StickyAsStated ==
    (Distinct(this) /\ last.op = "CalcProposer" /\ last.addr \in Members(this))
    => LET n == Len(this)
           i == PositionOf(this, last.addr)
       IN  /\ policy["valSet"] = "Sticky"
              => thisProposer = At(this, (i + last.round) % n)
           /\ (policy["valSet"] = "Sticky" /\ last.round = 0)
              => thisProposer = last.addr
           /\ (policy["valSet"] = "RoundRobin" /\ last.round = 0)
              => thisProposer = At(this, (i + 1) % n)

\* C8 (amended): under Sticky with lastProposer a member whose first index
\* is i, CalcProposer stores the member at index ((i + round) mod 2^64) mod n,
\* the sum wrapping as uint64 does; with round = 0 the same proposer is
\* retained, whereas RoundRobin with round = 0 stores the member at index
\* (i + 1) mod n unless lastProposer is the zero address, for which it stores
\* the member at index 0.
C8_Sticky ==
    (last.op = "CalcProposer" /\ last.addr \in Members(this))
    => LET n == Len(this)
           i == PositionOf(this, last.addr)
       IN  /\ policy["valSet"] = "Sticky"
              => thisProposer = At(this, ((i + last.round) % UintMod) % n)
           /\ (policy["valSet"] = "Sticky" /\ last.round = 0)
              => thisProposer = last.addr
           /\ (policy["valSet"] = "RoundRobin" /\ last.round = 0)
              => thisProposer = IF last.addr = ZeroAddress
                                THEN At(this, 0)
                                ELSE At(this, (i + 1) % n)

\* Sticky has kept a proposer that is not the first member, where RoundRobin
\* would have moved on
C8_Witness ==
    /\ last.op = "CalcProposer"
    /\ policy["valSet"] = "Sticky"
    /\ last.round = 0
    /\ last.addr \in Members(this)
    /\ PositionOf(this, last.addr) >= 1
    /\ Len(this) >= 2
    /\ thisProposer = last.addr

\* ---- C9 -----------------------------------------------------------------
\* C9: a rejected mutation changes nothing: AddValidator(a) with a a member
\* and RemoveValidator(a) with a no member return false and leave
\* AddressList(), Size() and the current proposer as they were.
C9_RejectedMutationIsNoOp ==
    [][ LET rejected ==
              \/ last'.op = "AddValidator"
                 /\ last'.addr \in Members(validators[last'.set])
              \/ last'.op = "RemoveValidator"
                 /\ last'.addr \notin Members(validators[last'.set])
        IN  rejected
            => /\ last'.ret = FALSE
               /\ AddressList(validators'[last'.set]) = AddressList(validators[last'.set])
               /\ Size(validators'[last'.set]) = Size(validators[last'.set])
               /\ proposer'[last'.set] = proposer[last'.set] ]_vars

\* an AddValidator call for a member has returned false on a set that has a
\* proposer
C9_Witness ==
    /\ last.op = "AddValidator"
    /\ last.ret = FALSE
    /\ last.addr \in Members(this)
    /\ thisProposer # NilValidator

\* ---- C10 ----------------------------------------------------------------
\* C10: IsProposer(addr) returns true if and only if the set has a current
\* proposer and addr is that proposer's address.
C10_IsProposerIffProposerAddress ==
    last.op = "IsProposer"
    => (last.ret <=> (thisProposer # NilValidator /\ last.addr = thisProposer))

\* ---- C11 ----------------------------------------------------------------
\* the set other than s
Other(s) == CHOOSE t \in Sets : t # s

\* C11: a.Cmp(b) is true if and only if a and b have the same set of member
\* addresses, and so a.Cmp(b) = b.Cmp(a).
C11_CmpIffSameMembers ==
    last.op = "Cmp"
    => /\ last.ret <=> (Members(validators[last.set]) = Members(validators[Other(last.set)]))
       /\ last.ret = cmp(validators[Other(last.set)], validators[last.set])

\* on sets without a repeated member the statement of C11 holds: its failure
\* is that of C1
C11_OnDistinctSets ==
    (Distinct(this) /\ Distinct(validators["src"])) => C11_CmpIffSameMembers

\* ---- C14 ----------------------------------------------------------------
\* C14: CalcProposerByIndex(index) sets the current proposer to the member at
\* index 0 when index <= 1 and at index (index - 1) mod Size() when
\* index > 1, for every index and every set.  (Membership is left alone by
\* every step of the call: see the action.)
C14_ProposerByIndex ==
    last.op = "CalcProposerByIndex"
    => /\ ~ last.fault
       /\ Len(this) > 0
       /\ thisProposer = IF last.round > 1
                         THEN At(this, (last.round - 1) % Len(this))
                         ELSE At(this, 0)

\* on a set that has a member the statement of C14 holds: its failure is
\* that of C19
C14_OnNonEmptySets ==
    (last.op = "CalcProposerByIndex" /\ Len(this) > 0)
    => /\ ~ last.fault
       /\ thisProposer = IF last.round > 1
                         THEN At(this, (last.round - 1) % Len(this))
                         ELSE At(this, 0)

\* ---- C18 ----------------------------------------------------------------
\* C18: the validator GetProposer() returns is absent or a current member.
C18_ProposerIsMember ==
    GetProposer("valSet") = NilValidator
    \/ GetProposer("valSet") \in Members(this)

\* ---- C19 ----------------------------------------------------------------
\* C19: no operation faults, in any reachable state and for any argument,
\* a set that is empty included.
C19_NoFault == ~ last.fault

\* ---- C12 ----------------------------------------------------------------
\* C12: the sequence List() returned keeps its length and its elements
\* whatever AddValidator/RemoveValidator calls follow on the set.
C12_ListSnapshotStable == View(mem, "list") = mem.listed

\* the length is kept: the caller's slice header is its own
C12_LengthKept == Len(View(mem, "list")) = Len(mem.listed)

\* ---- C13 ----------------------------------------------------------------
\* C13: an AddValidator or RemoveValidator call on a set returned by Copy(),
\* and the removals CheckQuorum makes on its working copy, leave the original
\* set's AddressList(), Size() and proposer as they were.
C13_CopyIsIndependent ==
    [][ ( \/ last'.op \in {"AddValidator", "RemoveValidator"} /\ last'.set = "src"
          \/ last'.op = "CheckQuorum" )
        => /\ AddressList(validators["valSet"])' = AddressList(validators["valSet"])
           /\ Size(validators["valSet"])' = Size(validators["valSet"])
           /\ proposer["valSet"]' = proposer["valSet"] ]_vars

\* a member was removed from the copy and the original still has it
C13_Witness ==
    /\ last.op = "RemoveValidator"
    /\ last.set = "src"
    /\ last.ret = TRUE
    /\ HasAddress(this, last.addr)
    /\ ~ HasAddress(validators["src"], last.addr)

\* ---- C16 ----------------------------------------------------------------
\* C16: a GetByAddress call that ran beside AddValidator/RemoveValidator
\* calls returned what it returns on the membership of one instant between
\* its call and its return (so not (-1, absent) for an address that was a
\* member all along, and no index the address did not hold).
C16_ResultOfOneInstant ==
    (~ scan.on /\ scan.seen # {}) => scan.ret \in scan.seen

\* without a membership change during the call the result is that of the
\* call's one instant
C16_OnQuietCalls ==
    (~ scan.on /\ Cardinality(scan.seen) = 1) => scan.ret \in scan.seen

\* ---- C15 ----------------------------------------------------------------
\* goroutine g is inside a call and waits on validatorMu
Blocked(g) ==
    \/ AtStep(g, "RLock") /\ (rw.writer \/ rw.waiting # {})
    \/ AtStep(g, "acquire") /\ (rw.readers > 0 \/ rw.writer)

InFlight(g) == pc[g] # Idle

\* C15: no state is reachable in which calls are in flight and every one of
\* them waits on the lock (so that no call blocks forever).
C15_NoCallBlocksForever ==
    (\E g \in Goroutines : InFlight(g))
    => \E g \in Goroutines : InFlight(g) /\ ~ Blocked(g)

\* ---- C17 ----------------------------------------------------------------
\* g is inside CalcProposer, between taking the lock and releasing it (its
\* reads of the members and its store of the proposer lie in between)
InCalcProposer(g) == pc[g].op = "CalcProposer" /\ pc[g].held > 0

\* C17: while a CalcProposer call holds the lock no other call on the set is
\* inside a critical section; two CalcProposer calls never overlap.
C17_CalcProposerIsExclusive ==
    \A g \in Goroutines : \A h \in Goroutines \ {g} :
        InCalcProposer(g) => pc[h].held = 0

\* the write lock is exclusive: a sanity check of the lock itself
C17_WritersAreExclusive ==
    \A g \in Goroutines : \A h \in Goroutines \ {g} :
        (pc[g].op \in Writers /\ pc[g].held > 0) => pc[h].held = 0

====
